---- MODULE Spec2Model ----
(***************************************************************************)
(* A model of scripts/fetch_apod.py: one run of download_apod() fetches    *)
(* the APOD metadata, selects a media URL, derives a file name, checks the *)
(* working tree for a file of that name and streams the media to disk.     *)
(* Runs follow one another on the same filesystem.                         *)
(***************************************************************************)
EXTENDS Integers, Sequences, FiniteSets, TLC

VARIABLES
    run,            \* number of the current invocation of main()
    pc,             \* last code position the run reached
    result,         \* "running" | "returned" | "raised" (out of download_apod and main)
    exc,            \* the exception that left download_apod ("" if none)
    mediaFault,     \* the transport failure that struck the media request ("" if none)
    log,            \* messages logged by this run, in order
    response,       \* get_apod_url's local: the metadata response
    url,            \* download_apod's local: the selected media URL
    file_name,      \* download_apod's local: os.path.basename(url)
    file_path,      \* download_apod's local: os.path.join(os.getcwd(), name)
    cwdFiles,       \* regular files directly in the working directory
    subFiles,       \* names of regular files somewhere below a subdirectory
    fs0,            \* cwdFiles as it was when the run started
    body,           \* the chunks the media response yields, in order
    contentLength,  \* the media response's Content-Length header
    remaining,      \* chunks response.iter_bytes() has not yielded yet
    total,          \* total handed to tqdm
    progressN,      \* bytes reported to the progress bar
    metaRequests,   \* GET requests to the metadata endpoint in this run
    mediaRequests,  \* GET requests to the media URL in this run
    opens,          \* times this run opened the destination for writing
    partial         \* what was on disk under a name when a timeout or redirect loop struck

vars == << run, pc, result, exc, mediaFault, log, response, url, file_name, file_path,
           cwdFiles, subFiles, fs0, body, contentLength, remaining, total,
           progressN, metaRequests, mediaRequests, opens, partial >>

----------------------------------------------------------------------------
(* Bounds *)

MaxRuns == 3
MaxChunks == 2

(* Input domains.  A URL is a sequence of characters. *)
Urls == { << "h", "/", "a" >>,
          << "h", "/", "d", "/", "a" >>,
          << "h", "/", "b" >>,
          << "h", "/" >> }

Chunks == { << 0 >>, << 1, 0 >> }

OldData == << 1, 1 >>

Cwd == << "." >>

----------------------------------------------------------------------------
(* Pure helpers *)

Max(S) == CHOOSE x \in S : \A y \in S : y <= x

\* p.rfind("/") + 1
RFindSlash(p) == Max({0} \cup { i \in 1..Len(p) : p[i] = "/" })

\* os.path.basename(p) == p[p.rfind("/") + 1:]
Basename(p) == SubSeq(p, RFindSlash(p) + 1, Len(p))

\* os.path.join(cwd, name) for a name without a leading slash
Join(dir, name) == dir \o << "/" >> \o name

Names == { Basename(u) : u \in Urls }

NoFile == [exists |-> FALSE, data |-> << >>]
File(d) == [exists |-> TRUE, data |-> d]

\* the destination's bytes when a transfer error struck, and in which run
NoPartial == [exists |-> FALSE, data |-> << >>, run |-> 0]

Absent == [kind |-> "absent", val |-> << >>]
Null == [kind |-> "null", val |-> << >>]
Str(s) == [kind |-> "str", val |-> s]
Num(n) == [kind |-> "int", val |-> n]

\* Python truthiness of a JSON value: None and "" are falsy
Truthy(v) == v.kind = "str" /\ v.val # << >>

NoResponse == [status |-> 0, json |-> FALSE, hdurl |-> Absent, url |-> Absent]

\* what the metadata endpoint may answer
Responses ==
    { [status |-> s, json |-> TRUE, hdurl |-> h, url |-> u] :
        s \in {200, 500},
        h \in {Absent, Null, Str(<< >>)} \cup { Str(x) : x \in Urls },
        u \in {Absent} \cup { Str(x) : x \in Urls } }
    \cup { [status |-> s, json |-> FALSE, hdurl |-> Absent, url |-> Absent] :
        s \in {200, 500} }

RECURSIVE BodiesOfLen(_)
BodiesOfLen(n) ==
    IF n = 0 THEN { << >> }
    ELSE { << c >> \o b : c \in Chunks, b \in BodiesOfLen(n - 1) }

Bodies == UNION { BodiesOfLen(n) : n \in 0..MaxChunks }

RECURSIVE Flatten(_)
Flatten(chunks) ==
    IF chunks = << >> THEN << >> ELSE Head(chunks) \o Flatten(Tail(chunks))

IsPrefix(p, s) == Len(p) <= Len(s) /\ SubSeq(s, 1, Len(p)) = p

\* a walk that never reports the top directory's own files
WalkFilesSkipTop(cwdF, subF) == subF

\* the file names os.walk(os.getcwd()) yields: the top directory's and every subdirectory's
WalkFiles(cwdF, subF) == { n \in DOMAIN cwdF : cwdF[n].exists } \cup subF

\* a write that replaces what was written before
WriteTruncating(f, chunk) == File(chunk)

\* file.write(chunk) on a file opened "wb"
Write(f, chunk) == File(f.data \o chunk)

----------------------------------------------------------------------------
Init ==
    /\ run = 1
    /\ pc = "start"
    /\ result = "running"
    /\ exc = ""
    /\ mediaFault = ""
    /\ log = << >>
    /\ response = NoResponse
    /\ url = << >>
    /\ file_name = << >>
    /\ file_path = << >>
    /\ \E pre \in SUBSET Names :
          /\ Cardinality(pre) <= 1
          /\ << >> \notin pre
          /\ cwdFiles = [n \in Names |-> IF n \in pre THEN File(OldData) ELSE NoFile]
    /\ subFiles \in { s \in SUBSET Names : Cardinality(s) <= 1 /\ << >> \notin s }
    /\ fs0 = cwdFiles
    /\ body = << >>
    /\ contentLength = Absent
    /\ remaining = << >>
    /\ total = 0
    /\ progressN = 0
    /\ metaRequests = 0
    /\ mediaRequests = 0
    /\ opens = 0
    /\ partial = [n \in Names |-> NoPartial]

Running(at) == result = "running" /\ pc = at

\* an exception leaves download_apod and main
Raise(e) == result' = "raised" /\ exc' = e

runVars == << run, fs0, subFiles, partial >>
metaVars == << response, metaRequests >>
targetVars == << url, file_name, file_path >>
streamVars == << body, contentLength, remaining, total, progressN, mediaRequests >>
fileVars == << cwdFiles, opens >>

----------------------------------------------------------------------------
(* get_apod_url, lines 34-35: the request, .json() and the log line.  The   *)
(* status is never looked at: without raise_for_status() httpx.get raises  *)
(* no HTTPStatusError, so the handler of lines 38-39 has nothing to catch. *)
FetchMetadata ==
    /\ Running("start")
    /\ metaRequests' = metaRequests + 1
    /\ \/ \* the request fails in transport: no handler anywhere
          /\ Raise("TransportError")
          /\ UNCHANGED << pc, log, response >>
       \/ \E r \in Responses :
             /\ response' = r
             /\ IF r.json
                  THEN /\ pc' = "fetched"
                       /\ log' = Append(log, "retrieved")
                       /\ UNCHANGED << result, exc >>
                  ELSE /\ Raise("JSONDecodeError")
                       /\ UNCHANGED << pc, log >>
    /\ UNCHANGED << mediaFault, runVars, targetVars, streamVars, fileVars >>

(* get_apod_url, lines 36-37 *)
SelectUrl ==
    /\ Running("fetched")
    /\ IF response.hdurl.kind = "absent"
         THEN Raise("KeyError") /\ UNCHANGED << pc, url >>
         ELSE IF Truthy(response.hdurl)
                THEN /\ url' = response.hdurl.val
                     /\ pc' = "selected"
                     /\ UNCHANGED << result, exc >>
                ELSE IF response.url.kind = "absent"
                       THEN Raise("KeyError") /\ UNCHANGED << pc, url >>
                       ELSE /\ url' = response.url.val
                            /\ pc' = "selected"
                            /\ UNCHANGED << result, exc >>
    /\ UNCHANGED << mediaFault, log, runVars, metaVars, file_name, file_path,
                    streamVars, fileVars >>

(* get_and_check_file_path, lines 51-52; get_apod_url's local is gone *)
ResolvePath ==
    /\ Running("selected")
    /\ file_name' = Basename(url)
    /\ file_path' = Join(Cwd, Basename(url))
    /\ response' = NoResponse
    /\ pc' = "resolved"
    /\ UNCHANGED << result, exc, mediaFault, log, runVars, metaRequests, url,
                    streamVars, fileVars >>

\* a collision that is reported by a normal return
CheckCollisionReturns ==
    /\ Running("resolved")
    /\ IF file_name \in WalkFiles(cwdFiles, subFiles)
         THEN result' = "returned" /\ UNCHANGED << pc, exc >>
         ELSE pc' = "checked" /\ UNCHANGED << result, exc >>
    /\ UNCHANGED << mediaFault, log, runVars, metaVars, targetVars, streamVars, fileVars >>

(* get_and_check_file_path, lines 54-59 *)
CheckCollision ==
    /\ Running("resolved")
    /\ IF file_name \in WalkFiles(cwdFiles, subFiles)
         THEN Raise("FileExistsError") /\ UNCHANGED pc
         ELSE pc' = "checked" /\ UNCHANGED << result, exc >>
    /\ UNCHANGED << mediaFault, log, runVars, metaVars, targetVars, streamVars, fileVars >>

\* a download that starts without waiting for the collision check
StartDownloadUnchecked ==
    /\ result = "running"
    /\ pc \in {"resolved", "checked"}
    /\ pc' = "downloading"
    /\ log' = Append(log, "downloading")
    /\ UNCHANGED << result, exc, mediaFault, runVars, metaVars, targetVars,
                    streamVars, fileVars >>

(* download_apod, lines 79-80 *)
StartDownload ==
    /\ Running("checked")
    /\ pc' = "downloading"
    /\ log' = Append(log, "downloading")
    /\ UNCHANGED << result, exc, mediaFault, runVars, metaVars, targetVars,
                    streamVars, fileVars >>

(* download_apod, line 81: open(file_path, "wb") *)
OpenFile ==
    /\ Running("downloading")
    /\ IF file_name = << >>
         THEN \* the path is the working directory itself; no handler for this OSError
              /\ Raise("IsADirectoryError")
              /\ UNCHANGED << pc, fileVars >>
         ELSE \/ /\ cwdFiles' = [cwdFiles EXCEPT ![file_name] = File(<< >>)]
                 /\ opens' = opens + 1
                 /\ pc' = "opened"
                 /\ UNCHANGED << result, exc >>
              \/ \* lines 100-105: re-raised with a clarified message
                 /\ \E e \in {"FileNotFoundError", "PermissionError"} : Raise(e)
                 /\ UNCHANGED << pc, fileVars >>
    /\ UNCHANGED << mediaFault, log, runVars, metaVars, targetVars, streamVars >>

\* a handler that lets the error through
HandleTransferErrorReraise(e) ==
    /\ Raise(e)
    /\ log' = log
    /\ pc' = pc
    /\ cwdFiles' = cwdFiles

\* a handler that removes the unfinished file
HandleTransferErrorCleanup(e) ==
    /\ log' = Append(log, "error")
    /\ result' = "returned"
    /\ exc' = ""
    /\ pc' = pc
    /\ cwdFiles' = [cwdFiles EXCEPT ![file_name] = NoFile]

(* download_apod, lines 98-99: the error is logged and swallowed; leaving  *)
(* the with block closes the file and nothing removes it                   *)
HandleTransferError(e) ==
    /\ log' = Append(log, "error")
    /\ result' = "returned"
    /\ exc' = ""
    /\ pc' = pc
    /\ cwdFiles' = cwdFiles

\* a timeout or a redirect loop strikes the media transfer
Strike(e) ==
    /\ mediaFault' = e
    /\ partial' = [partial EXCEPT ![file_name] =
                      [exists |-> TRUE, data |-> cwdFiles[file_name].data, run |-> run]]

(* download_apod, line 82: httpx.stream("GET", url) *)
RequestMedia ==
    /\ Running("opened")
    /\ mediaRequests' = mediaRequests + 1
    /\ \/ /\ \E e \in {"TimeoutException", "TooManyRedirects"} :
                Strike(e) /\ HandleTransferError(e)
          /\ UNCHANGED << body, contentLength, remaining >>
       \/ /\ Raise("TransportError")
          /\ mediaFault' = "TransportError"
          /\ UNCHANGED << pc, log, cwdFiles, partial, body, contentLength, remaining >>
       \/ \E b \in Bodies :
          \E cl \in {Absent, Num(0), Num(Len(Flatten(b)))} :
             /\ body' = b
             /\ contentLength' = cl
             /\ remaining' = b
             /\ pc' = "responded"
             /\ UNCHANGED << result, exc, mediaFault, log, cwdFiles, partial >>
    /\ UNCHANGED << run, fs0, subFiles, metaVars, targetVars, total, progressN, opens >>

(* download_apod, lines 83-88: total = int(response.headers["Content-Length"]) *)
ReadTotal ==
    /\ Running("responded")
    /\ IF contentLength.kind = "absent"
         THEN Raise("KeyError") /\ UNCHANGED << pc, total >>
         ELSE /\ total' = contentLength.val
              /\ pc' = "streaming"
              /\ UNCHANGED << result, exc >>
    /\ UNCHANGED << mediaFault, log, runVars, metaVars, targetVars, fileVars,
                    body, contentLength, remaining, progressN, mediaRequests >>

(* download_apod, lines 90-95: one iteration of the chunk loop.  The bytes  *)
(* written count as on disk at once: the with block flushes them on every  *)
(* way out, so they are there whenever the run has ended.                  *)
StreamChunk ==
    /\ Running("streaming")
    /\ remaining # << >>
    /\ \/ /\ cwdFiles' = [cwdFiles EXCEPT ![file_name] = Write(@, Head(remaining))]
          /\ progressN' = progressN + Len(Head(remaining))
          /\ remaining' = Tail(remaining)
          /\ UNCHANGED << pc, result, exc, mediaFault, log, partial >>
       \/ /\ Strike("TimeoutException")
          /\ HandleTransferError("TimeoutException")
          /\ UNCHANGED << remaining, progressN >>
       \/ /\ Raise("TransportError")
          /\ mediaFault' = "TransportError"
          /\ UNCHANGED << pc, log, cwdFiles, partial, remaining, progressN >>
    /\ UNCHANGED << run, fs0, subFiles, metaVars, targetVars, opens,
                    body, contentLength, total, mediaRequests >>

(* download_apod, line 97: the loop is exhausted, the files are closed *)
FinishDownload ==
    /\ Running("streaming")
    /\ remaining = << >>
    /\ log' = Append(log, "success")
    /\ result' = "returned"
    /\ pc' = "finished"
    /\ UNCHANGED << exc, mediaFault, runVars, metaVars, targetVars, streamVars, fileVars >>

(* main, lines 108-113: the next invocation of the script *)
NewRun ==
    /\ result # "running"
    /\ run < MaxRuns
    /\ run' = run + 1
    /\ pc' = "start"
    /\ result' = "running"
    /\ exc' = ""
    /\ mediaFault' = ""
    /\ log' = << >>
    /\ response' = NoResponse
    /\ url' = << >>
    /\ file_name' = << >>
    /\ file_path' = << >>
    /\ fs0' = cwdFiles
    /\ body' = << >>
    /\ contentLength' = Absent
    /\ remaining' = << >>
    /\ total' = 0
    /\ progressN' = 0
    /\ metaRequests' = 0
    /\ mediaRequests' = 0
    /\ opens' = 0
    /\ UNCHANGED << cwdFiles, subFiles, partial >>

Next ==
    \/ FetchMetadata
    \/ SelectUrl
    \/ ResolvePath
    \/ CheckCollision
    \/ StartDownload
    \/ OpenFile
    \/ RequestMedia
    \/ ReadTotal
    \/ StreamChunk
    \/ FinishDownload
    \/ NewRun

Spec == Init /\ [][Next]_vars

\* the script is sequential: a run that can take a step takes it
LiveSpec == Spec /\ WF_vars(Next)

----------------------------------------------------------------------------
(* Vocabulary of the properties *)

Terminated == result # "running"

Logged(m) == \E i \in 1..Len(log) : log[i] = m

\* the walk of lines 54-57 has run to its end or to its raise
CollisionChecked ==
    /\ pc \notin {"start", "fetched", "selected"}
    /\ ~ Running("resolved")

\* lines 36-37 have run to the return or to an exception
SelectionAttempted == pc = "selected" \/ (pc = "fetched" /\ result = "raised")

InCwdAtStart(n) == fs0[n].exists

Downloaded == result = "returned" /\ Logged("success")

\* n is what follows the last slash of u
IsFinalSegment(n, u) ==
    /\ \A i \in 1..Len(n) : n[i] # "/"
    /\ Len(n) <= Len(u)
    /\ SubSeq(u, Len(u) - Len(n) + 1, Len(u)) = n
    /\ (Len(u) = Len(n) \/ u[Len(u) - Len(n)] = "/")

\* the lifecycle state of section 4.3 a code position stands for
LifecycleState ==
    IF result = "running"
      THEN CASE pc = "start" -> "START"
             [] pc \in {"fetched", "selected"} -> "METADATA_FETCHED"
             [] pc \in {"resolved", "checked"} -> "TARGET_RESOLVED"
             [] OTHER -> "DOWNLOADING"
      ELSE IF exc = "FileExistsError" THEN "SKIPPED"
           ELSE IF Logged("success") THEN "DOWNLOADED"
           ELSE "FAILED"

StatedEdges ==
    { << "START", "METADATA_FETCHED" >>,
      << "METADATA_FETCHED", "TARGET_RESOLVED" >>,
      << "TARGET_RESOLVED", "SKIPPED" >>,
      << "TARGET_RESOLVED", "DOWNLOADING" >>,
      << "DOWNLOADING", "DOWNLOADED" >>,
      << "DOWNLOADING", "FAILED" >> }

CodeEdges ==
    StatedEdges \cup { << "START", "FAILED" >>, << "METADATA_FETCHED", "FAILED" >> }

\* a step stays in a non-terminal state, follows an edge, or starts the next run
LifecycleStep(edges) ==
    IF run' = run
      THEN \/ LifecycleState' = LifecycleState /\ ~ Terminated
           \/ << LifecycleState, LifecycleState' >> \in edges
      ELSE Terminated /\ LifecycleState' = "START"

----------------------------------------------------------------------------
\* C1: when a file of the target name is in the working directory at the
\* collision check, the run issues no media request, never opens the
\* destination for writing, and leaves the file's contents as they were.
C1_NoDownloadOnCollision ==
    (CollisionChecked /\ InCwdAtStart(file_name)) =>
        /\ mediaRequests = 0
        /\ opens = 0
        /\ cwdFiles = fs0

C1_Witness ==
    /\ CollisionChecked
    /\ InCwdAtStart(file_name)
    /\ Terminated
    /\ cwdFiles[file_name] = File(OldData)

\* C2 as stated: a collision ends the run by a normal return of download_apod,
\* with no exception propagated.
C2_SkipReturnsNormally ==
    (CollisionChecked /\ InCwdAtStart(file_name)) =>
        (Terminated /\ result = "returned" /\ exc = "")

\* C2 as amended: a collision ends the run by FileExistsError propagating out
\* of download_apod and main; nothing is requested, opened or reported done.
C2_SkipRaisesFileExistsError ==
    (CollisionChecked /\ InCwdAtStart(file_name)) =>
        /\ result = "raised"
        /\ exc = "FileExistsError"
        /\ pc = "resolved"
        /\ mediaRequests = 0
        /\ opens = 0
        /\ ~ Logged("success")

C2_Witness ==
    /\ CollisionChecked
    /\ InCwdAtStart(file_name)
    /\ exc = "FileExistsError"
    /\ run = 1

\* C3: for a parsed response that has url, selection never fails and yields
\* hdurl when it is present and non-empty, url when hdurl is absent, null or "".
C3_SelectsHdurlElseUrl ==
    (SelectionAttempted /\ response.json /\ response.url.kind = "str") =>
        /\ result # "raised"
        /\ url = IF response.hdurl.kind = "str" /\ response.hdurl.val # << >>
                   THEN response.hdurl.val
                   ELSE response.url.val

\* C4: a non-success status of the metadata endpoint ends the run with an
\* upstream error before target resolution, with no media request and no file.
C4_UpstreamErrorOnBadStatus ==
    (response.status \notin {0, 200}) =>
        /\ result = "raised"
        /\ exc = "HTTPStatusError"
        /\ pc = "start"
        /\ mediaRequests = 0
        /\ cwdFiles = fs0

C6_ContentLengthIrrelevant ==
    (Terminated /\ pc \in {"responded", "streaming", "finished"} /\ mediaFault = "") =>
        /\ Downloaded
        /\ cwdFiles[file_name] = File(Flatten(body))

C8_ImmediateDirectoryOnly ==
    (CollisionChecked /\ ~ InCwdAtStart(file_name)) => exc # "FileExistsError"

\* C9 as stated: the lifecycle's only way into FAILED is from DOWNLOADING.
C9_LifecycleAsStated == [][LifecycleStep(StatedEdges)]_vars

\* C9 as amended: states follow START -> METADATA_FETCHED -> TARGET_RESOLVED ->
\* (SKIPPED | DOWNLOADING -> (DOWNLOADED | FAILED)), with FAILED also entered
\* from START and METADATA_FETCHED; no state is entered twice; DOWNLOADING only
\* follows a collision check without a match; at most one request of each kind
\* per run; every run ends, and a terminal state is left only by the next run.
C9_Lifecycle ==
    /\ [][LifecycleStep(CodeEdges)]_vars
    /\ [](metaRequests <= 1 /\ mediaRequests <= 1)
    /\ [](LifecycleState = "DOWNLOADING" =>
             ~ InCwdAtStart(file_name) /\ file_name \notin subFiles)
    /\ (result = "running") ~> Terminated

C9_Witness ==
    /\ LifecycleState = "FAILED"
    /\ pc \in {"start", "fetched"}
    /\ run = 2

\* C10: the destination exists before the media request; a timeout or a
\* redirect loop leaves under the target name a prefix of the body; that file
\* keeps these bytes for good, and a later run with the same target name
\* skips without a media request.
C10_PartialFileSticks ==
    /\ (mediaRequests > 0 => opens = 1 /\ cwdFiles[file_name].exists)
    /\ (mediaFault \in {"TimeoutException", "TooManyRedirects"} =>
          /\ cwdFiles[file_name].exists
          /\ IsPrefix(cwdFiles[file_name].data, Flatten(body)))
    /\ \A n \in Names : partial[n].exists => cwdFiles[n] = File(partial[n].data)
    /\ (CollisionChecked /\ partial[file_name].exists /\ partial[file_name].run < run) =>
          /\ exc = "FileExistsError"
          /\ mediaRequests = 0
          /\ opens = 0

C10_Witness ==
    /\ CollisionChecked
    /\ partial[file_name].exists
    /\ partial[file_name].run < run
    /\ partial[file_name].data # << >>
    /\ Terminated
====
